---- MODULE Spec2Model ----
(***************************************************************************)
(* Model of the github-etl pipeline: GitHubExtractor (extract.py),         *)
(* GitHubTransformer (transform.py), GitHubLoader (load.py) and the        *)
(* command line entry point (main.py).                                     *)
(*                                                                         *)
(* The specifications of the module:                                       *)
(*   SpecTransform  transform_data applied to bounded lists of raw commits *)
(*   SpecLoad       transform_data and load_data against one store         *)
(*   SpecMain       runs of main against one database file                 *)
(*   SpecResolve    several extract, transform, load runs on one store     *)
(*   SpecExtract    _make_request and the page loop of get_commits         *)
(*   SpecAnalyze    the analyses of GitHubAnalyzer (analyze.py) on a store  *)
(***************************************************************************)
EXTENDS Integers, Sequences, FiniteSets, TLC

(***************************************************************************)
(* Values                                                                  *)
(***************************************************************************)
\* Python's None, and a key that is not in a dict.
None == "None"

\* Python truthiness of an optional string: None and "" are falsy.
Falsy(x) == x = None \/ x = ""

\* Python's `a or b` on optional strings.
Or(a, b) == IF Falsy(a) THEN b ELSE a

(***************************************************************************)
(* Bounds                                                                  *)
(***************************************************************************)
\* longest list of raw commits given to transform_data in SpecTransform
MaxRaw == 2
\* longest list of raw commits of one extraction in SpecLoad
MaxBatch == 2
\* load_data calls made with one batch object
MaxLoads == 2
\* full pages the server holds in SpecExtract
MaxFull == 2
\* HTTP requests the server rejects for rate limiting within one _make_request
MaxRejections == 3

\* calendar days on which the commits of SpecAnalyze are authored
MaxDay == 5

(***************************************************************************)
(* State                                                                   *)
(***************************************************************************)
\* the transformer, the loader and main
VARIABLES
    raw,        \* the commits the extractor returns for the lookback window
    batch,      \* the transformed batch the caller holds (its dicts are shared
                \* with load_data, which changes them)
    store,      \* the committed rows of the database file
    db_exists,  \* whether the database file exists
    loads,      \* the load_data calls made with the batch, oldest first
    outcome     \* how the last operation ended, when it was main

varsLoad == <<raw, batch, store, db_exists, loads, outcome>>

\* get_commits of the extractor
VARIABLES
    server,       \* what the API holds: the number of full pages, the length of
                  \* the page after them, and the one item that is not regular
    page,         \* page of get_commits
    all_commits,  \* all_commits of get_commits
    requests,     \* the pages get_commits has called _make_request for
    attempts,     \* HTTP requests sent by the current call of _make_request
    rejections,   \* how many of them were rejected for rate limiting
    failed,       \* whether a call of _make_request has returned None
    pc,           \* "loop": get_commits is about to call _make_request,
                  \* "request": _make_request is about to send, "done"
    backoff       \* the last call of _handle_rate_limit: the reset header it
                  \* was given and the milliseconds it slept

varsExtract ==
    <<server, page, all_commits, requests, attempts, rejections, failed, pc,
      backoff>>

\* the analyzer
VARIABLES
    analysis    \* what the last analysis of GitHubAnalyzer returned

vars == <<varsLoad, varsExtract, analysis>>

(***************************************************************************)
(* Input domains                                                           *)
(***************************************************************************)
Person(login, name, email) ==
    [login |-> login, name |-> name, email |-> email, avatar_url |-> None]

\* person sub-records of raw commits: keyed by login, the same login with
\* other fields, keyed by email only (the email of the login-keyed one),
\* and without login and email
PLogin == Person("a", "n1", "x")
PLoginOther == Person("a", "n2", "y")
PEmail == Person(None, "n3", "x")
PNoKey == Person(None, "n4", None)

\* committer and author of the raw commits of SpecTransform
TransformPairs ==
    {<<PLogin, PLogin>>, <<PLoginOther, PLoginOther>>, <<PEmail, PNoKey>>,
     <<PNoKey, PEmail>>}

\* committer and author of the raw commits of SpecLoad: both keyed by login,
\* or one keyed by email and the other without a key
LoadPairs == {<<PLogin, PLogin>>, <<PEmail, PNoKey>>, <<PNoKey, PEmail>>}

\* sha and committed_at of a raw commit: two valid commits, a commit without
\* sha, with an empty sha, and one without committed_at
ShaDates == {<<"s1", "t1">>, <<"s2", "t2">>, <<None, "t1">>, <<"s1", None>>}
ShaDatesEmpty == ShaDates \cup {<<"", "t1">>}

RawCommit(sd, committer, author) ==
    [sha |-> sd[1], message |-> "m", committed_at |-> sd[2],
     authored_at |-> sd[2], committer |-> committer, author |-> author]

TransformRaws ==
    {RawCommit(sd, p[1], p[2]) : sd \in ShaDatesEmpty, p \in TransformPairs}
\* the raw commits of SpecLoad: every sha and date with persons that have a
\* login, and a valid commit with every pair of LoadPairs
LoadRaws ==
    {RawCommit(sd, PLogin, PLogin) : sd \in ShaDates}
        \cup {RawCommit(<<"s1", "t1">>, p[1], p[2]) : p \in LoadPairs}
\* the raw commits of SpecMain: two valid ones and one without committed_at
MainRaws ==
    {RawCommit(sd, PLogin, PLogin) :
        sd \in {<<"s1", "t1">>, <<"s2", "t2">>, <<"s1", None>>}}

\* a person whose login is the string that is the email of PEmail
PKeyClash == Person("x", "n5", "y")

\* the raw commits of SpecResolve: each sha has its own committer and author.
\* Among the committers are two without login that share an email and one
\* whose login is that string; among the authors are two that share a login
\* and one without login that has the email of one of them
ResolveRaws ==
    {RawCommit(<<"s1", "t1">>, PEmail, PLogin),
     RawCommit(<<"s2", "t2">>, PKeyClash, PEmail),
     RawCommit(<<"s3", "t3">>, PEmail, PLoginOther)}

SeqsUpTo(S, n) == UNION {[1..k -> S] : k \in 0..n}

\* what get_repository_info returns: None, a complete repository, and one
\* whose response had no "name"
NoneRepo ==
    [isNone |-> TRUE, name |-> None, owner |-> None, full_name |-> None,
     description |-> None, url |-> None, created_at |-> None]
RepoOK ==
    [isNone |-> FALSE, name |-> "r", owner |-> "o", full_name |-> "o/r",
     description |-> None, url |-> "u", created_at |-> None]
RepoNoName == [RepoOK EXCEPT !.name = None]
RepoInfos == {NoneRepo, RepoOK, RepoNoName}

(***************************************************************************)
(* GitHubTransformer                                                       *)
(***************************************************************************)
\* A Python dict as the sequence of its items in insertion order.
DictHas(d, k) == \E i \in 1..Len(d) : d[i].key = k
\* d[k] = v: a new key is appended, an old key keeps its place and gets v
DictSet(d, k, v) ==
    IF DictHas(d, k)
    THEN [i \in 1..Len(d) |-> IF d[i].key = k THEN [key |-> k, val |-> v] ELSE d[i]]
    ELSE Append(d, [key |-> k, val |-> v])
DictValues(d) == [i \in 1..Len(d) |-> d[i].val]

transform_repository(repo_info) ==
    IF repo_info.isNone THEN NoneRepo
    ELSE [isNone |-> FALSE, name |-> repo_info.name, owner |-> repo_info.owner,
          full_name |-> repo_info.full_name,
          description |-> repo_info.description, url |-> repo_info.url,
          created_at |-> repo_info.created_at]

transform_committer(committer_data) ==
    [login |-> committer_data.login, name |-> committer_data.name,
     email |-> committer_data.email, avatar_url |-> committer_data.avatar_url]

transform_author(author_data) ==
    [login |-> author_data.login, name |-> author_data.name,
     email |-> author_data.email, avatar_url |-> author_data.avatar_url]

\* _transform_commit that only tests the sha
transform_commit_sha_only(commit_data, committer_key, author_key) ==
    IF Falsy(commit_data.sha)
    THEN <<>>
    ELSE << [sha |-> commit_data.sha, message |-> commit_data.message,
             committed_at |-> commit_data.committed_at,
             authored_at |-> commit_data.authored_at,
             committer_key |-> committer_key, author_key |-> author_key] >>

\* <<>> stands for the None that _transform_commit returns
transform_commit(commit_data, committer_key, author_key) ==
    IF Falsy(commit_data.sha) \/ Falsy(commit_data.committed_at)
    THEN <<>>
    ELSE << [sha |-> commit_data.sha, message |-> commit_data.message,
             committed_at |-> commit_data.committed_at,
             authored_at |-> commit_data.authored_at,
             committer_key |-> committer_key, author_key |-> author_key] >>

\* a loop body of transform_data that gives a commit the logins as its keys
TransformOneLoginKeys(acc, commit) ==
    LET committer == transform_committer(commit.committer)
        committer_key == Or(committer.login, committer.email)
        author == transform_author(commit.author)
        author_key == Or(author.login, author.email)
    IN  [committers_dict |->
            IF Falsy(committer_key) THEN acc.committers_dict
            ELSE DictSet(acc.committers_dict, committer_key, committer),
         authors_dict |->
            IF Falsy(author_key) THEN acc.authors_dict
            ELSE DictSet(acc.authors_dict, author_key, author),
         transformed_commits |->
            acc.transformed_commits \o
                transform_commit(commit, committer.login, author.login)]

\* one iteration of the loop of transform_data
TransformOne(acc, commit) ==
    LET committer == transform_committer(commit.committer)
        committer_key == Or(committer.login, committer.email)
        author == transform_author(commit.author)
        author_key == Or(author.login, author.email)
    IN  [committers_dict |->
            IF Falsy(committer_key) THEN acc.committers_dict
            ELSE DictSet(acc.committers_dict, committer_key, committer),
         authors_dict |->
            IF Falsy(author_key) THEN acc.authors_dict
            ELSE DictSet(acc.authors_dict, author_key, author),
         transformed_commits |->
            acc.transformed_commits \o
                transform_commit(commit, committer_key, author_key)]

RECURSIVE TransformLoop(_, _, _)
TransformLoop(acc, commits_data, i) ==
    IF i > Len(commits_data) THEN acc
    ELSE TransformLoop(TransformOne(acc, commits_data[i]), commits_data, i + 1)

transform_data(repo_info, commits_data) ==
    LET acc == TransformLoop([committers_dict |-> <<>>, authors_dict |-> <<>>,
                              transformed_commits |-> <<>>], commits_data, 1)
    IN  [repository |-> transform_repository(repo_info),
         committers |-> DictValues(acc.committers_dict),
         authors |-> DictValues(acc.authors_dict),
         commits |-> acc.transformed_commits]

(***************************************************************************)
(* The store: the four tables of db/models.py.  A table is the sequence of *)
(* its rows in id order; ids are generated 1, 2, ... and no row is ever    *)
(* deleted from an existing file, so row i has id i.  An insert that breaks *)
(* a NOT NULL or unique constraint of the schema raises IntegrityError.     *)
(***************************************************************************)
EmptyStore ==
    [repositories |-> <<>>, committers |-> <<>>, authors |-> <<>>, commits |-> <<>>]

\* every loop of the loader flushes its commit inserts every FlushEvery adds
FlushEvery == 100

\* stages of load_data at which the storage layer can be made to raise:
\* "repository", "committers", "authors", "commits" (the first statement of
\* that stage fails) and "commit" (session.commit() fails).  The faults
\* injected are one before the commit loop and one after it.
Faults == {"none", "authors", "commit"}

\* query(...).filter(col == v).first(): the matching row of lowest id, 0 if none
FirstId(rows, field, value) ==
    IF \E i \in 1..Len(rows) : rows[i][field] = value
    THEN CHOOSE i \in 1..Len(rows) :
            /\ rows[i][field] = value
            /\ \A j \in 1..(i - 1) : rows[j][field] # value
    ELSE 0

\* dict.get(key) on a key -> row map; 0 stands for None
MapGet(d, k) ==
    IF DictHas(d, k) THEN d[CHOOSE i \in 1..Len(d) : d[i].key = k].val ELSE 0

\* the constraints of the repositories table: whether row r can be inserted
RepositoryInsertable(rows, r) ==
    /\ r.name # None /\ r.owner # None /\ r.full_name # None /\ r.url # None
    /\ \A i \in 1..Len(rows) : rows[i].full_name # r.full_name

\* the constraint of the committers and of the authors table: login is
\* unique, where it is not NULL
PersonInsertable(rows, r) ==
    r.login = None \/ \A i \in 1..Len(rows) : rows[i].login # r.login

\* the constraints of the commits table (0 is the id of no row)
CommitInsertable(rows, c) ==
    /\ c.sha # None /\ c.committed_at # None
    /\ c.repository_id # 0 /\ c.committer_id # 0 /\ c.author_id # 0
    /\ \A i \in 1..Len(rows) : rows[i].sha # c.sha

\* session.flush(): the pending Commit objects are inserted in the order
\* they were added; the first that breaks a constraint raises IntegrityError
Flush(s) ==
    IF s.raised \/ s.pending = <<>> THEN s
    ELSE IF \E i \in 1..Len(s.pending) :
                ~CommitInsertable(s.db.commits \o SubSeq(s.pending, 1, i - 1),
                                  s.pending[i])
    THEN [s EXCEPT !.raised = TRUE]
    ELSE [s EXCEPT !.db.commits = s.db.commits \o s.pending, !.pending = <<>>]

\* a query of the session: autoflush, then the statement, which the storage
\* layer fails when the fault is injected at this stage
Query(s, stage, fault) ==
    IF s.raised THEN s
    ELSE IF fault = stage THEN [s EXCEPT !.raised = TRUE]
    ELSE Flush(s)

(***************************************************************************)
(* GitHubLoader                                                            *)
(***************************************************************************)
\* returns the session and the id of the Repository object, 0 for None
load_repository(s, repository_data, fault) ==
    IF repository_data.isNone THEN [s |-> s, repository |-> 0]
    ELSE
        LET q == Query(s, "repository", fault)
            existing_repo ==
                FirstId(q.db.repositories,
                        "full_name", repository_data.full_name)
            row == [name |-> repository_data.name,
                    owner |-> repository_data.owner,
                    full_name |-> repository_data.full_name,
                    description |-> repository_data.description,
                    url |-> repository_data.url,
                    created_at |-> repository_data.created_at]
        IN  IF q.raised THEN [s |-> q, repository |-> 0]
            ELSE IF existing_repo # 0 THEN [s |-> q, repository |-> existing_repo]
            ELSE IF ~RepositoryInsertable(q.db.repositories, row)
            THEN [s |-> [q EXCEPT !.raised = TRUE], repository |-> 0]
            ELSE [s |-> [q EXCEPT !.db.repositories = Append(@, row)],
                  repository |-> Len(q.db.repositories) + 1]

\* _load_committers that inserts every committer without the lookup
LoadCommitterOneNoLookup(acc, committer_data, fault) ==
    LET login == committer_data.login
        email == committer_data.email
        committer_key == Or(login, email)
        q == Query(acc.s, "committers", fault)
    IN  IF acc.s.raised THEN acc
        ELSE IF Falsy(login) /\ Falsy(email) THEN acc
        ELSE IF q.raised THEN [acc EXCEPT !.s = q]
        ELSE IF ~PersonInsertable(q.db.committers, committer_data)
        THEN [acc EXCEPT !.s = [q EXCEPT !.raised = TRUE]]
        ELSE [s |-> [q EXCEPT !.db.committers = Append(@, committer_data)],
              map |-> DictSet(acc.map, committer_key, Len(q.db.committers) + 1)]

\* one iteration of the loop of _load_committers
LoadCommitterOne(acc, committer_data, fault) ==
    LET login == committer_data.login
        email == committer_data.email
        committer_key == Or(login, email)
        q == Query(acc.s, "committers", fault)
        existing_committer ==
            IF ~Falsy(login)
            THEN FirstId(q.db.committers, "login", login)
            ELSE FirstId(q.db.committers, "email", email)
    IN  IF acc.s.raised THEN acc
        ELSE IF Falsy(login) /\ Falsy(email) THEN acc
        ELSE IF q.raised THEN [acc EXCEPT !.s = q]
        ELSE IF existing_committer # 0
        THEN [s |-> q, map |-> DictSet(acc.map, committer_key, existing_committer)]
        ELSE IF ~PersonInsertable(q.db.committers, committer_data)
        THEN [acc EXCEPT !.s = [q EXCEPT !.raised = TRUE]]
        ELSE [s |-> [q EXCEPT !.db.committers = Append(@, committer_data)],
              map |-> DictSet(acc.map, committer_key, Len(q.db.committers) + 1)]

RECURSIVE LoadCommittersLoop(_, _, _, _)
LoadCommittersLoop(acc, committers_data, i, fault) ==
    IF i > Len(committers_data) THEN acc
    ELSE LoadCommittersLoop(LoadCommitterOne(acc, committers_data[i], fault),
                            committers_data, i + 1, fault)

load_committers(s, committers_data, fault) ==
    LoadCommittersLoop([s |-> s, map |-> <<>>], committers_data, 1, fault)

\* one iteration of the loop of _load_authors
LoadAuthorOne(acc, author_data, fault) ==
    LET login == author_data.login
        email == author_data.email
        author_key == Or(login, email)
        q == Query(acc.s, "authors", fault)
        existing_author ==
            IF ~Falsy(login)
            THEN FirstId(q.db.authors, "login", login)
            ELSE FirstId(q.db.authors, "email", email)
    IN  IF acc.s.raised THEN acc
        ELSE IF Falsy(login) /\ Falsy(email) THEN acc
        ELSE IF q.raised THEN [acc EXCEPT !.s = q]
        ELSE IF existing_author # 0
        THEN [s |-> q, map |-> DictSet(acc.map, author_key, existing_author)]
        ELSE IF ~PersonInsertable(q.db.authors, author_data)
        THEN [acc EXCEPT !.s = [q EXCEPT !.raised = TRUE]]
        ELSE [s |-> [q EXCEPT !.db.authors = Append(@, author_data)],
              map |-> DictSet(acc.map, author_key, Len(q.db.authors) + 1)]

RECURSIVE LoadAuthorsLoop(_, _, _, _)
LoadAuthorsLoop(acc, authors_data, i, fault) ==
    IF i > Len(authors_data) THEN acc
    ELSE LoadAuthorsLoop(LoadAuthorOne(acc, authors_data[i], fault),
                         authors_data, i + 1, fault)

load_authors(s, authors_data, fault) ==
    LoadAuthorsLoop([s |-> s, map |-> <<>>], authors_data, 1, fault)

\* _load_commits that does not skip a commit whose committer or author is
\* not in the maps
LoadCommitOneNoSkip(acc, i, repository, committers_map, authors_map, fault) ==
    LET commit_data == acc.data[i]
        q == Query(acc.s, "commits", fault)
        existing_commit ==
            FirstId(q.db.commits, "sha", commit_data.sha)
        committer == MapGet(committers_map, commit_data.committer_key)
        author == MapGet(authors_map, commit_data.author_key)
        popped2 == [acc.data EXCEPT ![i].committer_key = None,
                                    ![i].author_key = None]
        commit == [sha |-> commit_data.sha, message |-> commit_data.message,
                   committed_at |-> commit_data.committed_at,
                   authored_at |-> commit_data.authored_at,
                   repository_id |-> repository, committer_id |-> committer,
                   author_id |-> author]
        added == [q EXCEPT !.pending = Append(@, commit)]
    IN  IF acc.s.raised THEN acc
        ELSE IF Falsy(commit_data.sha) THEN acc
        ELSE IF q.raised THEN [acc EXCEPT !.s = q]
        ELSE IF existing_commit # 0 THEN [acc EXCEPT !.s = q]
        ELSE [s |-> IF (acc.count + 1) % FlushEvery = 0 THEN Flush(added) ELSE added,
              data |-> popped2,
              count |-> acc.count + 1]

\* _load_commits that does not look the sha up before it adds the commit
LoadCommitOneNoExisting(acc, i, repository, committers_map, authors_map, fault) ==
    LET commit_data == acc.data[i]
        q == Query(acc.s, "commits", fault)
        committer == MapGet(committers_map, commit_data.committer_key)
        author == MapGet(authors_map, commit_data.author_key)
        popped1 == [acc.data EXCEPT ![i].committer_key = None]
        popped2 == [popped1 EXCEPT ![i].author_key = None]
        commit == [sha |-> commit_data.sha, message |-> commit_data.message,
                   committed_at |-> commit_data.committed_at,
                   authored_at |-> commit_data.authored_at,
                   repository_id |-> repository, committer_id |-> committer,
                   author_id |-> author]
        added == [q EXCEPT !.pending = Append(@, commit)]
    IN  IF acc.s.raised THEN acc
        ELSE IF Falsy(commit_data.sha) THEN acc
        ELSE IF q.raised THEN [acc EXCEPT !.s = q]
        ELSE IF committer = 0 THEN [acc EXCEPT !.s = q, !.data = popped1]
        ELSE IF author = 0 THEN [acc EXCEPT !.s = q, !.data = popped2]
        ELSE [s |-> IF (acc.count + 1) % FlushEvery = 0 THEN Flush(added) ELSE added,
              data |-> popped2,
              count |-> acc.count + 1]

\* one iteration of the loop of _load_commits; acc.data is commits_data, whose
\* dicts the loop changes in place: pop() removes committer_key and author_key
\* (a removed key reads as None afterwards)
LoadCommitOne(acc, i, repository, committers_map, authors_map, fault) ==
    LET commit_data == acc.data[i]
        q == Query(acc.s, "commits", fault)
        existing_commit ==
            FirstId(q.db.commits, "sha", commit_data.sha)
        committer == MapGet(committers_map, commit_data.committer_key)
        author == MapGet(authors_map, commit_data.author_key)
        popped1 == [acc.data EXCEPT ![i].committer_key = None]
        popped2 == [popped1 EXCEPT ![i].author_key = None]
        commit == [sha |-> commit_data.sha, message |-> commit_data.message,
                   committed_at |-> commit_data.committed_at,
                   authored_at |-> commit_data.authored_at,
                   repository_id |-> repository, committer_id |-> committer,
                   author_id |-> author]
        added == [q EXCEPT !.pending = Append(@, commit)]
    IN  IF acc.s.raised THEN acc
        ELSE IF Falsy(commit_data.sha) THEN acc
        ELSE IF q.raised THEN [acc EXCEPT !.s = q]
        ELSE IF existing_commit # 0 THEN [acc EXCEPT !.s = q]
        ELSE IF committer = 0 THEN [acc EXCEPT !.s = q, !.data = popped1]
        ELSE IF author = 0 THEN [acc EXCEPT !.s = q, !.data = popped2]
        ELSE [s |-> IF (acc.count + 1) % FlushEvery = 0 THEN Flush(added) ELSE added,
              data |-> popped2,
              count |-> acc.count + 1]

RECURSIVE LoadCommitsLoop(_, _, _, _, _, _)
LoadCommitsLoop(acc, i, repository, committers_map, authors_map, fault) ==
    IF i > Len(acc.data) THEN acc
    ELSE LoadCommitsLoop(
            LoadCommitOne(acc, i, repository, committers_map, authors_map, fault),
            i + 1, repository, committers_map, authors_map, fault)

load_commits(s, commits_data, repository, committers_map, authors_map, fault) ==
    LoadCommitsLoop([s |-> s, data |-> commits_data, count |-> 0], 1,
                    repository, committers_map, authors_map, fault)

\* session.commit(): flush what is pending, then commit the transaction
SessionCommit(s, fault) ==
    IF s.raised THEN s
    ELSE IF fault = "commit" THEN [s EXCEPT !.raised = TRUE]
    ELSE Flush(s)

\* load_data of a loader that drops the tables before it creates them
load_data_fresh_tables(db, given, fault) ==
    LET s0 == [db |-> EmptyStore, pending |-> <<>>, raised |-> FALSE]
        r == load_repository(s0, given.repository, fault)
        c == load_committers(r.s, given.committers, fault)
        a == load_authors(c.s, given.authors, fault)
        k == load_commits(a.s, given.commits, r.repository, c.map, a.map, fault)
        t == SessionCommit(k.s, fault)
        returns_false(raised, data) ==
            [ret |-> FALSE, raised |-> raised, store |-> db, commits |-> data]
    IN  IF r.s.raised THEN returns_false(TRUE, given.commits)
        ELSE IF r.repository = 0 THEN returns_false(FALSE, given.commits)
        ELSE IF c.s.raised \/ a.s.raised THEN returns_false(TRUE, given.commits)
        ELSE IF t.raised THEN returns_false(TRUE, k.data)
        ELSE [ret |-> TRUE, raised |-> FALSE, store |-> t.db, commits |-> k.data]

\* load_data whose except branch leaves what was flushed in the store
load_data_no_rollback(db, given, fault) ==
    LET s0 == [db |-> db, pending |-> <<>>, raised |-> FALSE]
        r == load_repository(s0, given.repository, fault)
        c == load_committers(r.s, given.committers, fault)
        a == load_authors(c.s, given.authors, fault)
        k == load_commits(a.s, given.commits, r.repository, c.map, a.map, fault)
        t == SessionCommit(k.s, fault)
        returns_false(raised, s, data) ==
            [ret |-> FALSE, raised |-> raised, store |-> s.db, commits |-> data]
    IN  IF r.s.raised THEN returns_false(TRUE, r.s, given.commits)
        ELSE IF r.repository = 0 THEN returns_false(FALSE, r.s, given.commits)
        ELSE IF c.s.raised THEN returns_false(TRUE, c.s, given.commits)
        ELSE IF a.s.raised THEN returns_false(TRUE, a.s, given.commits)
        ELSE IF t.raised THEN returns_false(TRUE, t, k.data)
        ELSE [ret |-> TRUE, raised |-> FALSE, store |-> t.db, commits |-> k.data]

\* load_data that reports failure when _load_commits added fewer commits
\* than it was given
load_data_strict(db, given, fault) ==
    LET s0 == [db |-> db, pending |-> <<>>, raised |-> FALSE]
        r == load_repository(s0, given.repository, fault)
        c == load_committers(r.s, given.committers, fault)
        a == load_authors(c.s, given.authors, fault)
        k == load_commits(a.s, given.commits, r.repository, c.map, a.map, fault)
        t == SessionCommit(k.s, fault)
        returns_false(raised, data) ==
            [ret |-> FALSE, raised |-> raised, store |-> db, commits |-> data]
    IN  IF r.s.raised THEN returns_false(TRUE, given.commits)
        ELSE IF r.repository = 0 THEN returns_false(FALSE, given.commits)
        ELSE IF c.s.raised \/ a.s.raised THEN returns_false(TRUE, given.commits)
        ELSE IF t.raised THEN returns_false(TRUE, k.data)
        ELSE IF k.count < Len(given.commits) THEN returns_false(FALSE, k.data)
        ELSE [ret |-> TRUE, raised |-> FALSE, store |-> t.db, commits |-> k.data]

\* What a call of load_data does: ret is the value returned, raised tells
\* whether the except branch ran, store is the persistent store after the
\* call (leaving the with block without commit rolls the session back) and
\* commits is commits_data as the call leaves it.
load_data(db, given, fault) ==
    LET s0 == [db |-> db, pending |-> <<>>, raised |-> FALSE]
        r == load_repository(s0, given.repository, fault)
        c == load_committers(r.s, given.committers, fault)
        a == load_authors(c.s, given.authors, fault)
        k == load_commits(a.s, given.commits, r.repository, c.map, a.map, fault)
        t == SessionCommit(k.s, fault)
        returns_false(raised, data) ==
            [ret |-> FALSE, raised |-> raised, store |-> db, commits |-> data]
    IN  IF r.s.raised THEN returns_false(TRUE, given.commits)
        ELSE IF r.repository = 0 THEN returns_false(FALSE, given.commits)
        ELSE IF c.s.raised \/ a.s.raised THEN returns_false(TRUE, given.commits)
        ELSE IF t.raised THEN returns_false(TRUE, k.data)
        ELSE [ret |-> TRUE, raised |-> FALSE, store |-> t.db, commits |-> k.data]

(***************************************************************************)
(* GitHubExtractor                                                         *)
(***************************************************************************)
\* per_page of get_commits, and the length below which a page is the last
PageSize == 100

\* length of page p of the commit list
PageLen(srv, p) ==
    IF p <= srv.full THEN PageSize ELSE IF p = srv.full + 1 THEN srv.short ELSE 0

\* the items of page p as the API returns them; the date of the first item of
\* page srv.odd_page is srv.odd_date: a string that does not parse, or no date
PageItems(srv, p) ==
    [i \in 1..PageLen(srv, p) |->
        [sha |-> <<p, i>>,
         date |-> IF p = srv.odd_page /\ i = 1 THEN srv.odd_date ELSE "d"]]

\* _process_commit: <<>> stands for None, returned when parser.parse raises
process_commit(commit_data) ==
    IF commit_data.date = "garbage" THEN <<>>
    ELSE << [sha |-> commit_data.sha,
             committed_at |-> commit_data.date] >>

RECURSIVE ProcessPage(_, _)
ProcessPage(response, i) ==
    IF i > Len(response) THEN <<>>
    ELSE process_commit(response[i]) \o ProcessPage(response, i + 1)

\* X-RateLimit-Reset of a 403 response, as seconds from int(time.time()):
\* absent, in the past, now, and ten seconds ahead
NoHeader == [present |-> FALSE, delta |-> 0]
ResetHeaders ==
    {NoHeader} \cup {[present |-> TRUE, delta |-> d] : d \in {0 - 3, 0, 10}}

\* the response argument of _handle_rate_limit: None, or the 403 response
NoResponse == [isNone |-> TRUE, status_code |-> 0, reset |-> NoHeader]
RateLimitResponse(h) == [isNone |-> FALSE, status_code |-> 403, reset |-> h]

\* bool(response) of a requests.Response is response.ok: no 4xx or 5xx status
ResponseBool(response) == ~response.isNone /\ response.status_code < 400

\* _handle_rate_limit: the milliseconds it sleeps, with the header it was given
handle_rate_limit(response) ==
    IF ResponseBool(response) /\ response.reset.present
    THEN [called |-> TRUE, reset |-> response.reset,
          wait |-> ((IF response.reset.delta > 0 THEN response.reset.delta
                     ELSE 0) + 5) * 1000]
    ELSE [called |-> TRUE, reset |-> response.reset, wait |-> 500]

NoBackoff == [called |-> FALSE, reset |-> NoHeader, wait |-> 0]

\* no analysis has run
NoAnalysis == [kind |-> "none"]

\* no batch has been transformed yet
NoBatch ==
    [present |-> FALSE, repository |-> NoneRepo, committers |-> <<>>,
     authors |-> <<>>, commits |-> <<>>]

\* the loader before anything is extracted
IdleLoad ==
    /\ raw = <<>>
    /\ batch = NoBatch
    /\ store = EmptyStore
    /\ db_exists = FALSE
    /\ loads = <<>>
    /\ outcome = "none"

\* the extractor before get_commits is called, against an empty server
IdleExtract ==
    /\ server = [full |-> 0, short |-> 0, odd_page |-> 0, odd_date |-> None]
    /\ page = 1
    /\ all_commits = <<>>
    /\ requests = <<>>
    /\ attempts = 0
    /\ rejections = 0
    /\ failed = FALSE
    /\ pc = "loop"
    /\ backoff = NoBackoff

\* get_commits is called against one server
InitExtract ==
    /\ server \in [full : 0..MaxFull, short : {0, 1, PageSize - 1},
                   odd_page : 0..(MaxFull + 1), odd_date : {"garbage", None}]
    /\ page = 1
    /\ all_commits = <<>>
    /\ requests = <<>>
    /\ attempts = 0
    /\ rejections = 0
    /\ failed = FALSE
    /\ pc = "loop"
    /\ backoff = NoBackoff
    /\ IdleLoad
    /\ analysis = NoAnalysis

\* get_commits: params["page"] = page; self._make_request(url, params=params)
CallMakeRequest ==
    /\ pc = "loop"
    /\ pc' = "request"
    /\ requests' = Append(requests, page)
    /\ attempts' = 0
    /\ rejections' = 0
    /\ UNCHANGED <<server, page, all_commits, failed, backoff>>
    /\ UNCHANGED <<varsLoad, analysis>>

\* a loop body that ends the loop on the number of commits it kept
AfterResponseKept(response) ==
    IF response = <<>>
    THEN /\ pc' = "done"
         /\ UNCHANGED <<page, all_commits, backoff>>
    ELSE /\ all_commits' = all_commits \o ProcessPage(response, 1)
         /\ IF Len(ProcessPage(response, 1)) < PageSize
            THEN /\ pc' = "done"
                 /\ UNCHANGED <<page, backoff>>
            ELSE /\ page' = page + 1
                 /\ backoff' = handle_rate_limit(NoResponse)
                 /\ pc' = "loop"

\* the rest of the loop body of get_commits, once _make_request has returned
\* the list response
AfterResponse(response) ==
    IF response = <<>>
    THEN /\ pc' = "done"
         /\ UNCHANGED <<page, all_commits, backoff>>
    ELSE /\ all_commits' = all_commits \o ProcessPage(response, 1)
         /\ IF Len(response) < PageSize
            THEN /\ pc' = "done"
                 /\ UNCHANGED <<page, backoff>>
            ELSE /\ page' = page + 1
                 /\ backoff' = handle_rate_limit(NoResponse)
                 /\ pc' = "loop"

\* _make_request after which get_commits goes on to the next page when the
\* request has failed
MakeRequestSkipsFailedPage(answer) ==
    /\ pc = "request"
    /\ attempts' = attempts + 1
    /\ IF answer = "rate_limit"
       THEN /\ rejections < MaxRejections
            /\ rejections' = rejections + 1
            /\ \E h \in ResetHeaders :
                  backoff' = handle_rate_limit(RateLimitResponse(h))
            /\ UNCHANGED <<page, all_commits, failed, pc>>
       ELSE IF answer = "ok"
       THEN /\ AfterResponse(PageItems(server, page))
            /\ UNCHANGED <<rejections, failed>>
       ELSE /\ failed' = TRUE
            /\ page' = page + 1
            /\ pc' = IF page <= MaxFull THEN "loop" ELSE "done"
            /\ UNCHANGED <<all_commits, rejections, backoff>>
    /\ UNCHANGED <<server, requests>>
    /\ UNCHANGED <<varsLoad, analysis>>

\* _make_request: one requests.get and what follows it.  answer is what the
\* server does with this request: "ok", "rate_limit" (403 with the rate limit
\* message), "http_error" (any other status that raise_for_status rejects)
\* or "transport_error" (requests.RequestException)
MakeRequest(answer) ==
    /\ pc = "request"
    /\ attempts' = attempts + 1
    /\ IF answer = "rate_limit"
       THEN \* _handle_rate_limit(response), then the same request again
            /\ rejections < MaxRejections
            /\ rejections' = rejections + 1
            /\ \E h \in ResetHeaders :
                  backoff' = handle_rate_limit(RateLimitResponse(h))
            /\ UNCHANGED <<page, all_commits, failed, pc>>
       ELSE IF answer = "ok"
       THEN /\ AfterResponse(PageItems(server, page))
            /\ UNCHANGED <<rejections, failed>>
       ELSE \* the except branches: log, return None; get_commits breaks
            /\ failed' = TRUE
            /\ pc' = "done"
            /\ UNCHANGED <<page, all_commits, rejections, backoff>>
    /\ UNCHANGED <<server, requests>>
    /\ UNCHANGED <<varsLoad, analysis>>

Answers == {"ok", "rate_limit", "http_error", "transport_error"}

(***************************************************************************)
(* main.py                                                                 *)
(***************************************************************************)
\* GITHUB_REPO as the sequence of its characters; <<>> is unset or empty
RepoSettings ==
    {<<>>, <<"o", "r">>, <<"o", "/", "r">>, <<"o", "/", "r", "/", "x">>}

\* len(repo.split('/'))
SplitParts(repo) == Cardinality({i \in 1..Len(repo) : repo[i] = "/"}) + 1

\* get_config: "exit" stands for sys.exit(1)
get_config(repo) ==
    IF repo = <<>> THEN "exit"
    ELSE IF \A i \in 1..Len(repo) : repo[i] # "/" THEN "exit"
    ELSE "ok"

\* run_etl_pipeline on what the extractor returned: repo_info and commits
run_etl_pipeline(repo_info, commits, fault) ==
    LET b == transform_data(repo_info, commits)
        l == load_data(EmptyStore, b, fault)
    IN  IF repo_info.isNone THEN [outcome |-> "no_repo_info", loaded |-> <<>>]
        ELSE IF commits = <<>> THEN [outcome |-> "no_commits", loaded |-> <<>>]
        ELSE [outcome |-> IF l.ret THEN "success" ELSE "load_failed",
              loaded |-> <<l>>]

(***************************************************************************)
(* GitHubAnalyzer.  authored_at of a stored commit is NULL or a calendar   *)
(* day, counted from 2024-01-01 (a Monday) as day 1, with an hour.         *)
(***************************************************************************)
NullTime == [isNull |-> TRUE, day |-> 0, hour |-> 0]
Time(d, h) == [isNull |-> FALSE, day |-> d, hour |-> h]

\* strftime('%w', t): 0 is Sunday
DayOfWeek(t) == t.day % 7

\* COALESCE(a.login, a.name, a.email, 'Unknown')
AuthorLabel(a) ==
    IF a.login # None THEN a.login
    ELSE IF a.name # None THEN a.name
    ELSE IF a.email # None THEN a.email
    ELSE "Unknown"

\* daily_commits: one row per author and DATE(authored_at)
daily_commits(st) ==
    {[author_id |-> st.commits[i].author_id,
      author |-> AuthorLabel(st.authors[st.commits[i].author_id]),
      isNull |-> st.commits[i].authored_at.isNull,
      commit_date |-> st.commits[i].authored_at.day] : i \in 1..Len(st.commits)}

\* ROW_NUMBER() OVER (PARTITION BY author_id ORDER BY commit_date): SQLite
\* sorts NULL before every date
row_num(dc, r) ==
    1 + Cardinality({q \in dc :
            /\ q.author_id = r.author_id
            /\ \/ q.isNull /\ ~r.isNull
               \/ ~q.isNull /\ ~r.isNull /\ q.commit_date < r.commit_date})

\* numbered_days: group_id is julianday(commit_date) - row_num, NULL for a
\* NULL date
numbered_days(st) ==
    LET dc == daily_commits(st)
    IN  {[author_id |-> r.author_id, author |-> r.author, isNull |-> r.isNull,
          commit_date |-> r.commit_date,
          group_id |-> IF r.isNull THEN 0 ELSE r.commit_date - row_num(dc, r)] :
            r \in dc}

\* MIN and MAX of a column skip NULL and are NULL when nothing is left
MinDate(rows) ==
    IF \A r \in rows : r.isNull THEN NullTime
    ELSE Time(CHOOSE d \in {r.commit_date : r \in {q \in rows : ~q.isNull}} :
                \A r \in rows : r.isNull \/ d <= r.commit_date, 0)
MaxDate(rows) ==
    IF \A r \in rows : r.isNull THEN NullTime
    ELSE Time(CHOOSE d \in {r.commit_date : r \in {q \in rows : ~q.isNull}} :
                \A r \in rows : r.isNull \/ d >= r.commit_date, 0)

\* streaks: GROUP BY author_id, group_id
streaks(st) ==
    LET nd == numbered_days(st)
        group(r) == {q \in nd : /\ q.author_id = r.author_id
                                /\ q.isNull = r.isNull
                                /\ q.group_id = r.group_id}
    IN  {[author |-> r.author,
          streak_start |-> MinDate(group(r)),
          streak_end |-> MaxDate(group(r)),
          streak_length |-> Cardinality(group(r))] : r \in nd}

\* ORDER BY streak_length DESC LIMIT 1: the rows one of which is returned
LongestStreaks(st) ==
    {r \in streaks(st) : \A q \in streaks(st) : q.streak_length <= r.streak_length}

\* the query of analyze_commit_heatmap: GROUP BY day_of_week, hour
heatmap_query(st) ==
    LET key(c) == IF c.authored_at.isNull
                  THEN [isNull |-> TRUE, day_of_week |-> 0, hour |-> 0]
                  ELSE [isNull |-> FALSE, day_of_week |-> DayOfWeek(c.authored_at),
                        hour |-> c.authored_at.hour]
    IN  {[isNull |-> k.isNull, day_of_week |-> k.day_of_week, hour |-> k.hour,
          commit_count |->
             Cardinality({i \in 1..Len(st.commits) : key(st.commits[i]) = k})] :
            k \in {key(st.commits[i]) : i \in 1..Len(st.commits)}}

day_names == <<"Sun", "Mon", "Tue", "Wed", "Thu", "Fri", "Sat">>
day_order == <<"Mon", "Tue", "Wed", "Thu", "Fri", "Sat", "Sun">>
hour_groups ==
    <<<<0, 3>>, <<3, 6>>, <<6, 9>>, <<9, 12>>, <<12, 15>>, <<15, 18>>,
      <<18, 21>>, <<21, 24>>>>

RECURSIVE SumOver(_, _)
SumOver(f, S) ==
    IF S = {} THEN 0
    ELSE LET x == CHOOSE y \in S : TRUE IN f[x] + SumOver(f, S \ {x})

\* analyze_commit_heatmap: None for an empty result, else the grid of the
\* days of day_order by the hour groups
analyze_commit_heatmap(st) ==
    LET df == heatmap_query(st)
        \* the left merge of all days and hours with df, NaN filled with 0
        df_full == [d \in 0..6 |-> [h \in 0..23 |->
            IF \E r \in df : ~r.isNull /\ r.day_of_week = d /\ r.hour = h
            THEN (CHOOSE r \in df :
                    ~r.isNull /\ r.day_of_week = d /\ r.hour = h).commit_count
            ELSE 0]]
        heatmap_data == [name \in {day_names[i] : i \in 1..7} |->
            df_full[(CHOOSE i \in 1..7 : day_names[i] = name) - 1]]
    IN  IF df = {} THEN [kind |-> "heatmap", isNone |-> TRUE]
        ELSE [kind |-> "heatmap", isNone |-> FALSE,
              index |-> day_order,
              columns |-> hour_groups,
              grid |-> [name \in {day_order[i] : i \in 1..Len(day_order)} |->
                          [g \in {hour_groups[i] : i \in 1..Len(hour_groups)} |->
                              SumOver(heatmap_data[name], g[1]..(g[2] - 1))]]]

(***************************************************************************)
(* SpecLoad: the transformer, the loader and main against one store        *)
(***************************************************************************)
AsBatch(b) ==
    [present |-> TRUE, repository |-> b.repository, committers |-> b.committers,
     authors |-> b.authors, commits |-> b.commits]

\* a batch a caller hands to load_data without the transformer: every person
\* sub-record and every raw commit, with its keys
UncheckedBatch(repo_info, commits_data) ==
    LET key(p) == Or(p.login, p.email)
    IN  [repository |-> repo_info,
         committers |-> [i \in 1..Len(commits_data) |-> commits_data[i].committer],
         authors |-> [i \in 1..Len(commits_data) |-> commits_data[i].author],
         commits |->
            [i \in 1..Len(commits_data) |->
                [sha |-> commits_data[i].sha,
                 message |-> commits_data[i].message,
                 committed_at |-> commits_data[i].committed_at,
                 authored_at |-> commits_data[i].authored_at,
                 committer_key |-> key(commits_data[i].committer),
                 author_key |-> key(commits_data[i].author)]]]

\* what is remembered of a call of load_data
LoadLog(fault, repository, l) ==
    [faulted |-> fault # "none", ret |-> l.ret, raised |-> l.raised,
     no_repo |-> repository.isNone]

InitLoad ==
    /\ raw \in SeqsUpTo(LoadRaws, MaxBatch)
    /\ batch = NoBatch
    /\ store = EmptyStore
    /\ db_exists = FALSE
    /\ loads = <<>>
    /\ outcome = "none"
    /\ IdleExtract
    /\ analysis = NoAnalysis

\* transformer.transform_data(repo_info, commits)
Transform(repo_info) ==
    /\ batch' = AsBatch(transform_data(repo_info, raw))
    /\ loads' = <<>>
    /\ outcome' = "none"
    /\ UNCHANGED <<raw, store, db_exists>>
    /\ UNCHANGED <<varsExtract, analysis>>

\* a caller builds a batch itself
CallerBatch ==
    /\ batch' = AsBatch(UncheckedBatch(RepoOK, raw))
    /\ loads' = <<>>
    /\ outcome' = "none"
    /\ UNCHANGED <<raw, store, db_exists>>
    /\ UNCHANGED <<varsExtract, analysis>>

\* GitHubLoader(engine).load_data(repository, committers, authors, commits)
LoadData(fault) ==
    /\ batch.present
    /\ Len(loads) < MaxLoads
    /\ LET l == load_data(store, batch, fault)
       IN  /\ store' = l.store
           /\ batch' = [batch EXCEPT !.commits = l.commits]
           /\ loads' = Append(loads, LoadLog(fault, batch.repository, l))
    /\ db_exists' = TRUE
    /\ outcome' = "none"
    /\ UNCHANGED raw
    /\ UNCHANGED <<varsExtract, analysis>>

\* the inputs of a run of main: GITHUB_REPO, what get_repository_info
\* returns and the storage fault; an input the run does not get to read is
\* left at one value
MainInputs ==
    {in \in RepoSettings \X RepoInfos \X Faults :
        /\ (get_config(in[1]) = "exit" \/ SplitParts(in[1]) # 2)
                => in[2] = NoneRepo /\ in[3] = "none"
        /\ in[2].isNone => in[3] = "none"}

\* main(): get_config, refresh_database, split, run_etl_pipeline
Main(repo, repo_info, fault) ==
    LET p == run_etl_pipeline(repo_info, raw, fault)
    IN  /\ IF get_config(repo) = "exit"
           THEN /\ outcome' = "exit"
                /\ loads' = <<>>
                /\ UNCHANGED <<store, db_exists>>
           ELSE IF SplitParts(repo) # 2
           THEN /\ outcome' = "crash"
                /\ loads' = <<>>
                /\ store' = EmptyStore
                /\ db_exists' = FALSE
           ELSE /\ outcome' = p.outcome
                /\ loads' = [i \in 1..Len(p.loaded) |->
                                LoadLog(fault, repo_info, p.loaded[i])]
                /\ store' = IF p.loaded = <<>> THEN EmptyStore
                            ELSE p.loaded[1].store
                /\ db_exists' = (p.loaded # <<>>)
        /\ batch' = NoBatch
        /\ UNCHANGED raw
        /\ UNCHANGED <<varsExtract, analysis>>

\* the lookback window moves on: the oldest commit (the last of the list the
\* API returns, newest first) is no longer returned
WindowMoves ==
    /\ raw # <<>>
    /\ raw' = SubSeq(raw, 1, Len(raw) - 1)
    /\ outcome' = "none"
    /\ UNCHANGED <<batch, store, db_exists, loads>>
    /\ UNCHANGED <<varsExtract, analysis>>

NextLoad ==
    \/ \E ri \in RepoInfos : Transform(ri)
    \/ CallerBatch
    \/ \E f \in Faults : LoadData(f)
    \/ WindowMoves

SpecLoad == InitLoad /\ [][NextLoad]_vars

(***************************************************************************)
(* SpecMain: runs of main and direct uses of the transformer and the       *)
(* loader against one database file, while commits are pushed              *)
(***************************************************************************)
InitMain ==
    /\ raw \in SeqsUpTo(MainRaws, MaxBatch)
    /\ batch = NoBatch
    /\ store = EmptyStore
    /\ db_exists = FALSE
    /\ loads = <<>>
    /\ outcome = "none"
    /\ IdleExtract
    /\ analysis = NoAnalysis

\* a commit is pushed: the API returns it first from now on
NewCommit(c) ==
    /\ Len(raw) < MaxBatch
    /\ raw' = <<c>> \o raw
    /\ outcome' = "none"
    /\ UNCHANGED <<batch, store, db_exists, loads>>
    /\ UNCHANGED <<varsExtract, analysis>>

NextMain ==
    \/ \E in \in MainInputs : Main(in[1], in[2], in[3])
    \/ Transform(RepoOK)
    \/ LoadData("none")
    \/ \E c \in MainRaws : NewCommit(c)

SpecMain == InitMain /\ [][NextMain]_vars

(***************************************************************************)
(* SpecTransform: transform_data on every list of raw commits of up to     *)
(* MaxRaw elements                                                         *)
(***************************************************************************)
InitTransform ==
    /\ raw \in SeqsUpTo(TransformRaws, MaxRaw)
    /\ batch = NoBatch
    /\ store = EmptyStore
    /\ db_exists = FALSE
    /\ loads = <<>>
    /\ outcome = "none"
    /\ IdleExtract
    /\ analysis = NoAnalysis

NextTransform == \E ri \in RepoInfos : Transform(ri)

SpecTransform == InitTransform /\ [][NextTransform]_vars

(***************************************************************************)
(* SpecExtract: get_commits against a server that answers each request     *)
(* with the page asked for, a rate limit rejection or an error             *)
(***************************************************************************)
NextExtract ==
    \/ CallMakeRequest
    \/ \E answer \in Answers : MakeRequest(answer)

SpecExtract == InitExtract /\ [][NextExtract]_vars

(***************************************************************************)
(* SpecResolve: runs of the extractor, the transformer and the loader      *)
(* against one store that is kept between the runs                         *)
(***************************************************************************)
InitResolve ==
    /\ raw \in SeqsUpTo(ResolveRaws, MaxBatch)
    /\ batch = NoBatch
    /\ store = EmptyStore
    /\ db_exists = FALSE
    /\ loads = <<>>
    /\ outcome = "none"
    /\ IdleExtract
    /\ analysis = NoAnalysis

\* extractor.get_commits(...) of a later run returns another list
Extract(commits) ==
    /\ raw' = commits
    /\ batch' = NoBatch
    /\ loads' = <<>>
    /\ outcome' = "none"
    /\ UNCHANGED <<store, db_exists>>
    /\ UNCHANGED <<varsExtract, analysis>>

NextResolve ==
    \/ \E commits \in SeqsUpTo(ResolveRaws, MaxBatch) : Extract(commits)
    \/ Transform(RepoOK)
    \/ LoadData("none")

SpecResolve == InitResolve /\ [][NextResolve]_vars

(***************************************************************************)
(* SpecAnalyze: the analyses on stores of two authors whose commits are    *)
(* authored on the days 1..MaxDay                                          *)
(***************************************************************************)
\* a stored commit of author a
AnalyzeCommit(a, t) ==
    [sha |-> <<a, t.isNull, t.day, t.hour>>, message |-> "m",
     committed_at |-> "t1", authored_at |-> t,
     repository_id |-> 1, committer_id |-> 1, author_id |-> a]

\* the commits a store of SpecAnalyze can hold: one a day of the first
\* author, at an hour that changes with the day, a second commit on its
\* first day, commits of the second author on two days, and one of the
\* second author without authored_at
AnalyzeCommits ==
    {AnalyzeCommit(1, Time(d, (5 * d) % 24)) : d \in 1..MaxDay}
        \cup {AnalyzeCommit(1, Time(1, 2))}
        \cup {AnalyzeCommit(2, Time(d, 23)) : d \in {2, 3}}
        \cup {AnalyzeCommit(2, NullTime)}

\* the rows of a table in some order of their ids
RECURSIVE RowsOf(_)
RowsOf(S) ==
    IF S = {} THEN <<>>
    ELSE LET x == CHOOSE y \in S : TRUE IN <<x>> \o RowsOf(S \ {x})

InitAnalyze ==
    /\ \E S \in SUBSET AnalyzeCommits :
          store = [repositories |->
                      <<[name |-> "r", owner |-> "o", full_name |-> "o/r",
                         description |-> None, url |-> "u", created_at |-> None]>>,
                   committers |-> <<PLogin>>,
                   authors |-> <<PLogin, PEmail>>,
                   commits |-> RowsOf(S)]
    /\ raw = <<>>
    /\ batch = NoBatch
    /\ db_exists = TRUE
    /\ loads = <<>>
    /\ outcome = "none"
    /\ IdleExtract
    /\ analysis = NoAnalysis

\* analyzer.analyze_commit_heatmap()
AnalyzeHeatmap ==
    /\ analysis' = analyze_commit_heatmap(store)
    /\ UNCHANGED <<varsLoad, varsExtract>>

\* analyzer.analyze_longest_author_streak(): results[0] of the query, None
\* when it returns no row
AnalyzeStreak ==
    /\ IF streaks(store) = {}
       THEN analysis' = [kind |-> "streak", isNone |-> TRUE]
       ELSE \E r \in LongestStreaks(store) :
              analysis' = [kind |-> "streak", isNone |-> FALSE,
                           author |-> r.author,
                           streak_start |-> r.streak_start,
                           streak_end |-> r.streak_end,
                           streak_length |-> r.streak_length]
    /\ UNCHANGED <<varsLoad, varsExtract>>

NextAnalyze == AnalyzeHeatmap \/ AnalyzeStreak

SpecAnalyze == InitAnalyze /\ [][NextAnalyze]_vars

(***************************************************************************)
(* Properties                                                              *)
(***************************************************************************)
Last(l) == l[Len(l)]

\* a step that is a call of load_data on the caller's batch
LoadDataStep == outcome' = "none" /\ Len(loads') = Len(loads) + 1

Counts(st) ==
    <<Len(st.repositories), Len(st.committers), Len(st.authors), Len(st.commits)>>

ValidCommit(c) == ~Falsy(c.sha) /\ ~Falsy(c.committed_at)

\* the commits of the batch are what the transformer lets through
Transformed(b) == \A i \in 1..Len(b.commits) : ValidCommit(b.commits[i])

\* the batch holds nothing the schema rejects: a repository with its
\* required fields, and a committed_at in every commit
DataOK(b) ==
    /\ ~b.repository.isNone
    /\ RepositoryInsertable(<<>>, b.repository)
    /\ \A i \in 1..Len(b.commits) : b.commits[i].committed_at # None

ShasOf(rows) == {rows[i].sha : i \in 1..Len(rows)}

KeyOf(p) == Or(p.login, p.email)

\* index of the first raw commit whose sub-record of that role has the key
FirstWith(commits, role, key) ==
    CHOOSE i \in 1..Len(commits) :
        /\ KeyOf(commits[i][role]) = key
        /\ \A j \in 1..(i - 1) : KeyOf(commits[j][role]) # key

\* C1: for a batch of the transformer, a second call of load_data with the
\* same batch leaves the number of repository, committer, author and commit
\* rows as the first call left it (whenever the first call returned True, and
\* whenever no storage fault hit either call)
C1_IdempotentLoad ==
    [][(/\ LoadDataStep
        /\ Len(loads) = 1
        /\ Transformed(batch)
        /\ \/ loads[1].ret
           \/ ~loads[1].faulted /\ ~loads'[2].faulted)
       => Counts(store') = Counts(store)]_vars

\* two successful calls with one batch, which stored persons and commits
C1_Witness ==
    /\ Len(loads) = 2
    /\ loads[1].ret /\ loads[2].ret
    /\ Transformed(batch)
    /\ store.commits # <<>>
    /\ store.committers # <<>> /\ store.authors # <<>>

\* C3 (as claimed): every committer and every author that transform_data
\* emits is the first sub-record with its key, in input order
C3_FirstSeenWins ==
    batch.present =>
        /\ \A i \in 1..Len(batch.committers) :
              batch.committers[i] =
                transform_committer(
                    raw[FirstWith(raw, "committer",
                                  KeyOf(batch.committers[i]))].committer)
        /\ \A i \in 1..Len(batch.authors) :
              batch.authors[i] =
                transform_author(
                    raw[FirstWith(raw, "author",
                                  KeyOf(batch.authors[i]))].author)

\* C4: transform_data returns no commit without sha or committed_at, and the
\* commits table never holds a row without sha or committed_at
C4_CommitValidity ==
    /\ [][(\E ri \in RepoInfos : Transform(ri)) => Transformed(batch')]_vars
    /\ [](\A i \in 1..Len(store.commits) : ValidCommit(store.commits[i]))

\* an extraction with a commit that is not valid was transformed or handed
\* over as it is, and loaded: the valid commits are stored
C4_Witness ==
    /\ \E i \in 1..Len(raw) : ~ValidCommit(raw[i])
    /\ batch.present
    /\ loads # <<>> /\ Last(loads).ret
    /\ store.commits # <<>>

\* C5: every stored commit refers to a stored repository, committer and
\* author; a load whose batch has a commit with a key that resolves to no
\* person succeeds, and stores no row for such a commit
C5_ReferentialIntegrity ==
    /\ [](\A i \in 1..Len(store.commits) :
            /\ store.commits[i].repository_id \in 1..Len(store.repositories)
            /\ store.commits[i].committer_id \in 1..Len(store.committers)
            /\ store.commits[i].author_id \in 1..Len(store.authors))
    /\ [][(/\ LoadDataStep
           /\ DataOK(batch)
           /\ ~Last(loads').faulted
           /\ \E i \in 1..Len(batch.commits) :
                \/ batch.commits[i].committer_key = None
                \/ batch.commits[i].author_key = None)
          => /\ Last(loads').ret
             /\ \A j \in (Len(store.commits) + 1)..Len(store'.commits) :
                  \E i \in 1..Len(batch.commits) :
                     /\ batch.commits[i].sha = store'.commits[j].sha
                     /\ batch.commits[i].committer_key # None
                     /\ batch.commits[i].author_key # None]_vars

\* a successful load that stored a commit and skipped another one, whose
\* committer or author has no key
C5_Witness ==
    /\ loads # <<>> /\ Last(loads).ret
    /\ store.commits # <<>>
    /\ \E i \in 1..Len(batch.commits) :
          /\ ValidCommit(batch.commits[i])
          /\ batch.commits[i].sha \notin ShasOf(store.commits)

\* C6: a call of load_data that returns False leaves the store as it was
C6_AllOrNothing ==
    [][LoadDataStep => (Last(loads').ret \/ store' = store)]_vars

\* a load failed in the authors stage, after the repository and a committer
\* had been flushed, and the store holds no repository
C6_Witness ==
    /\ loads # <<>>
    /\ Last(loads).raised /\ Last(loads).faulted /\ ~Last(loads).ret
    /\ DataOK(batch)
    /\ \E i \in 1..Len(batch.committers) : KeyOf(batch.committers[i]) # None
    /\ store.repositories = <<>>

\* every commit row of the store is in the store after the step, unchanged
CommitsKept ==
    \A i \in 1..Len(store.commits) :
        i <= Len(store'.commits) /\ store'.commits[i] = store.commits[i]

\* C8 (as claimed): no step of main or load_data deletes or changes a commit
\* row
C8_CommitsNeverDeleted == [][CommitsKept]_vars

\* C8 (amended): load_data, and a run of main that get_config ends, delete
\* and change no commit row
C8_LoadDataKeepsCommits == [][outcome' \in {"none", "exit"} => CommitsKept]_vars

\* load_data was called twice on a store that holds two commits
C8_Witness ==
    /\ outcome = "none"
    /\ Len(loads) = 2 /\ loads[2].ret
    /\ Len(store.commits) = 2

\* C9: no two commit rows share a sha, no two repository rows share a
\* full_name; a load of a batch that carries a sha twice, or a sha that is
\* stored already, succeeds
C9_Uniqueness ==
    /\ [](/\ \A i, j \in 1..Len(store.commits) :
                i # j => store.commits[i].sha # store.commits[j].sha
          /\ \A i, j \in 1..Len(store.repositories) :
                i # j => store.repositories[i].full_name
                            # store.repositories[j].full_name)
    /\ [][(/\ LoadDataStep
           /\ DataOK(batch)
           /\ ~Last(loads').faulted
           /\ \/ \E i, j \in 1..Len(batch.commits) :
                    i # j /\ batch.commits[i].sha = batch.commits[j].sha
              \/ \E i \in 1..Len(batch.commits) :
                    batch.commits[i].sha \in ShasOf(store.commits))
          => Last(loads').ret]_vars

\* a batch that carries a sha twice was loaded, twice, and the sha is stored
C9_Witness ==
    /\ Len(loads) = 2 /\ loads[1].ret /\ loads[2].ret
    /\ \E i, j \in 1..Len(batch.commits) :
          /\ i # j
          /\ batch.commits[i].sha = batch.commits[j].sha
          /\ batch.commits[i].sha \in ShasOf(store.commits)
    /\ Len(store.repositories) = 1

\* C10: load_data returns False only without repository data or after an
\* exception; with data the schema accepts and no storage fault it returns
\* True, whatever it skips
C10_LoadFailureConditions ==
    /\ [](\A i \in 1..Len(loads) :
            ~loads[i].ret => (loads[i].no_repo \/ loads[i].raised))
    /\ [][(LoadDataStep /\ DataOK(batch) /\ ~Last(loads').faulted)
          => Last(loads').ret]_vars

\* a second load returned True although it skipped a committer without login
\* and email, a commit that is stored and a commit whose key does not resolve
C10_Witness ==
    /\ Len(loads) = 2 /\ loads[2].ret
    /\ \E i \in 1..Len(batch.committers) : KeyOf(batch.committers[i]) = None
    /\ \E i \in 1..Len(batch.commits) :
          batch.commits[i].sha \in ShasOf(store.commits)
    /\ \E i \in 1..Len(batch.commits) :
          /\ ValidCommit(batch.commits[i])
          /\ batch.commits[i].sha \notin ShasOf(store.commits)

\* C2 (as claimed): a call of _make_request sends at most two requests: after
\* a second rate limit rejection it sends nothing more and returns None
C2_SingleRetry ==
    /\ attempts <= 2
    /\ rejections >= 2 => (pc = "done" /\ failed)

\* what get_commits keeps of pages first..last, in page order
RECURSIVE KeptOfPages(_, _, _)
KeptOfPages(srv, first, last) ==
    IF first > last THEN <<>>
    ELSE ProcessPage(PageItems(srv, first), 1) \o KeptOfPages(srv, first + 1, last)

\* C7: get_commits asks for the pages 1, 2, ... in order and for none after
\* the first page of fewer than PageSize items; when it ends without a failed
\* request it has asked for every full page and the page after them, and
\* returns what _process_commit made of the items of these pages, in page
\* order
C7_PaginationTermination ==
    /\ requests = [i \in 1..Len(requests) |-> i]
    /\ Len(requests) <= server.full + 1
    /\ (pc = "done" /\ ~failed) =>
          /\ Len(requests) = server.full + 1
          /\ all_commits = KeptOfPages(server, 1, server.full + 1)

\* get_commits has ended after full pages and a short page with items, one
\* of the full pages holding an item that _process_commit drops
C7_Witness ==
    /\ pc = "done" /\ ~failed
    /\ server.full = MaxFull /\ server.short = 1
    /\ server.odd_page = 1 /\ server.odd_date = "garbage"
    /\ Len(requests) = server.full + 1
    /\ Len(all_commits) = PageSize * server.full

\* the raw commit of SpecResolve with that sha
ResolveRawOf(sha) == CHOOSE r \in ResolveRaws : r.sha = sha

\* two person records with equal login or, when both have no login, equal
\* email
SameIdentity(p, q) ==
    \/ ~Falsy(p.login) /\ p.login = q.login
    \/ Falsy(p.login) /\ Falsy(q.login) /\ ~Falsy(p.email) /\ p.email = q.email

\* C11 (as claimed): two stored commits whose raw committers (resp. authors)
\* have equal login or, both without login, equal email, are linked to the
\* same Committer (resp. Author) row, in one batch and across runs
C11_SameIdentitySameRow ==
    \A i, j \in 1..Len(store.commits) :
        LET ci == store.commits[i]
            cj == store.commits[j]
            ri == ResolveRawOf(ci.sha)
            rj == ResolveRawOf(cj.sha)
        IN  /\ SameIdentity(ri.committer, rj.committer)
                  => ci.committer_id = cj.committer_id
            /\ SameIdentity(ri.author, rj.author)
                  => ci.author_id = cj.author_id

\* C12 (as claimed): a run of main that ends on a missing or malformed
\* GITHUB_REPO (sys.exit in get_config, or the failed unpacking of the split)
\* leaves the database file and its rows as they were
C12_ConfigFaultNoSideEffect ==
    [][outcome' \in {"exit", "crash"} => UNCHANGED <<store, db_exists>>]_vars

\* C13: once a request has ended in an HTTP error that is not a rate limit
\* rejection, or in a transport error, get_commits has stopped and holds what
\* it kept of the pages before; the failing call of _make_request sends
\* nothing after the request that failed, and no request follows
C13_FailedRequestStops ==
    /\ [](failed => /\ pc = "done"
                    /\ all_commits = KeptOfPages(server, 1, Len(requests) - 1))
    /\ [][(pc = "request" /\ failed') =>
            /\ attempts' = attempts + 1
            /\ UNCHANGED <<requests, all_commits, page>>]_vars
    /\ [][failed => UNCHANGED <<requests, attempts, all_commits>>]_vars

\* the request for the second page has failed after a rate limit rejection,
\* the first page having been kept
C13_Witness ==
    /\ failed /\ pc = "done"
    /\ requests = <<1, 2>>
    /\ rejections = 1 /\ attempts = 2
    /\ Len(all_commits) = PageSize

\* C14 (as claimed): after a rate limit rejection whose X-RateLimit-Reset
\* is delta seconds after the current time, _handle_rate_limit has slept
\* max(delta, 0) + 5 seconds before the request is sent again
C14_BackoffDuration ==
    [][(rejections' = rejections + 1 /\ backoff'.reset.present) =>
         backoff'.wait =
            ((IF backoff'.reset.delta > 0 THEN backoff'.reset.delta ELSE 0) + 5)
                * 1000]_vars

\* C15 (as claimed): for every store, the empty one too, what
\* analyze_commit_heatmap returns is a grid of the 7 days Mon..Sun by the 8
\* three-hour blocks, with 0 in every bucket no commit falls into
C15_HeatmapComplete ==
    analysis.kind = "heatmap" =>
        /\ ~analysis.isNone
        /\ analysis.index = <<"Mon", "Tue", "Wed", "Thu", "Fri", "Sat", "Sun">>
        /\ Len(analysis.columns) = 8
        /\ \A b \in 1..8 : analysis.columns[b] = <<3 * (b - 1), 3 * b>>
        /\ \A i \in 1..7 : \A b \in 1..8 :
              (\A k \in 1..Len(store.commits) :
                  LET t == store.commits[k].authored_at
                  IN  \/ t.isNull
                      \/ ((t.day - 1) % 7) + 1 # i
                      \/ t.hour \div 3 # b - 1)
                  => analysis.grid[analysis.index[i]][analysis.columns[b]] = 0

\* the distinct calendar days on which author a has authored a stored commit
AuthoredDays(a) ==
    {store.commits[k].authored_at.day :
        k \in {j \in 1..Len(store.commits) :
                 /\ store.commits[j].author_id = a
                 /\ ~store.commits[j].authored_at.isNull}}

\* the days lo..hi are a run of author a: he has authored on each of them
IsRun(a, lo, hi) == lo <= hi /\ \A d \in lo..hi : d \in AuthoredDays(a)

\* the runs of all authors, as <<author, first day, last day>>
Runs ==
    {r \in (1..Len(store.authors)) \X (1..(MaxDay + 1)) \X (1..(MaxDay + 1)) :
        IsRun(r[1], r[2], r[3])}

\* C16 (as claimed): the streak that analyze_longest_author_streak returns
\* starts and ends on the first and last day of a run of consecutive
\* authored days of one author, and no author has a longer run
C16_LongestStreak ==
    (analysis.kind = "streak" /\ ~analysis.isNone) =>
        /\ ~analysis.streak_start.isNull /\ ~analysis.streak_end.isNull
        /\ \E r \in Runs :
              /\ analysis.streak_start.day = r[2]
              /\ analysis.streak_end.day = r[3]
              /\ analysis.streak_length = r[3] - r[2] + 1
        /\ \A r \in Runs : r[3] - r[2] + 1 <= analysis.streak_length

\* C17 (as claimed): a run of main that has read a well-formed GITHUB_REPO
\* and obtained the repository metadata succeeds exactly when load_data, on
\* what transform_data makes of the commits extracted, returns True
C17_ResultIsLoaderResult ==
    [][\A in \in MainInputs :
          (/\ Main(in[1], in[2], in[3])
           /\ get_config(in[1]) = "ok" /\ SplitParts(in[1]) = 2
           /\ ~in[2].isNone)
          => (outcome' = "success") =
                load_data(EmptyStore, transform_data(in[2], raw), in[3]).ret]_vars

\* raw commits that each have a sha, a committed_at, and a committer and an
\* author with a login or an email
Complete(commits) ==
    \A i \in 1..Len(commits) :
        /\ ValidCommit(commits[i])
        /\ ~Falsy(KeyOf(commits[i].committer))
        /\ ~Falsy(KeyOf(commits[i].author))

\* C18: load_data on an empty store, with the batch transform_data makes of
\* complete raw commits and a complete repository, returns True and stores
\* one Commit row for each distinct sha of the raw commits and one
\* Repository row
C18_LoadCompleteness ==
    [][(/\ LoadDataStep
        /\ store = EmptyStore
        /\ Complete(raw)
        /\ batch = AsBatch(transform_data(RepoOK, raw)))
       => /\ Last(loads').ret
          /\ ShasOf(store'.commits) = ShasOf(raw)
          /\ Len(store'.commits) = Cardinality(ShasOf(raw))
          /\ Len(store'.repositories) = 1]_vars

\* a first load of two commits, one of them with a committer that has no
\* login, has stored both
C18_Witness ==
    /\ Len(loads) = 1 /\ loads[1].ret
    /\ Len(raw) = 2 /\ Complete(raw)
    /\ ShasOf(store.commits) = ShasOf(raw)
    /\ Len(store.commits) = 2
    /\ Len(store.committers) = 1 /\ store.committers[1].login = None
    /\ Len(store.repositories) = 1

\* C19 (as claimed): after transform_data and a load_data that returns True
\* on an empty store, every Committer row and every Author row is the
\* committer or the author of a stored Commit row
C19_NoOrphanPersons ==
    [][(/\ LoadDataStep
        /\ store = EmptyStore
        /\ batch = AsBatch(transform_data(RepoOK, raw))
        /\ Last(loads').ret)
       => /\ \A p \in 1..Len(store'.committers) :
                \E k \in 1..Len(store'.commits) :
                    store'.commits[k].committer_id = p
          /\ \A p \in 1..Len(store'.authors) :
                \E k \in 1..Len(store'.commits) :
                    store'.commits[k].author_id = p]_vars

\* the permutations of a list
Perms(l) ==
    {[i \in 1..Len(l) |-> l[f[i]]] : f \in Permutations(1..Len(l))}

\* what a person loop leaves: whether it raised, the number of rows of its
\* table and the row that each identity key is mapped to
PersonOutcome(r, rows) ==
    [raised |-> r.s.raised,
     count |-> Len(rows),
     association |-> {<<r.map[i].key, rows[r.map[i].val]>> : i \in 1..Len(r.map)}]

\* C20 (as claimed): on the same store, _load_committers and _load_authors
\* leave the same number of rows and the same key to row association for a
\* list of persons and for every permutation of it
C20_OrderIndependent ==
    batch.present =>
        LET s0 == [db |-> store, pending |-> <<>>, raised |-> FALSE]
            committers(l) ==
                LET r == load_committers(s0, l, "none")
                IN  PersonOutcome(r, r.s.db.committers)
            authors(l) ==
                LET r == load_authors(s0, l, "none")
                IN  PersonOutcome(r, r.s.db.authors)
        IN  /\ \A l \in Perms(batch.committers) :
                  committers(l) = committers(batch.committers)
            /\ \A l \in Perms(batch.authors) :
                  authors(l) = authors(batch.authors)

====
